---- MODULE Spec2Model ----
(***************************************************************************)
(* Model of stellargraph/core/element_data.py: ExternalIdIndex,            *)
(* ElementData, NodeData and EdgeData.                                     *)
(*                                                                         *)
(* numpy arrays, pandas indexes and Python lists are sequences; a Python   *)
(* position p (0-based) is the sequence position p + 1.  A dtype is the    *)
(* bit width of an unsigned integer type, or 0 for the signed 64-bit type  *)
(* that pandas' get_indexer returns.  A call that raises yields a record   *)
(* whose kind is the exception's class.                                    *)
(***************************************************************************)
EXTENDS Integers, Sequences, FiniteSets, TLC

VARIABLES
    pc,                   \* "new" before a constructor ran, then what was built, or "failed"
    args,                 \* the arguments the constructor was called with
    id_index,             \* ElementData._id_index (the ExternalIdIndex under test in SpecIndex)
    type_index,           \* ElementData._type_index
    type_column,          \* ElementData._type_column
    type_element_ilocs,   \* ElementData._type_element_ilocs
    features,             \* NodeData._features
    edges_in_by_type,     \* EdgeData._edges_in_by_type
    edges_out_by_type,    \* EdgeData._edges_out_by_type
    edges_by_type,        \* EdgeData._edges_by_type
    weights_in_by_type,   \* EdgeData._weights_in_by_type
    weights_out_by_type,  \* EdgeData._weights_out_by_type
    weights_by_type,      \* EdgeData._weights_by_type
    res                   \* the last call and what it returned or raised

elementVars == <<id_index, type_index, type_column, type_element_ilocs>>
edgeVars == <<edges_in_by_type, edges_out_by_type, edges_by_type,
              weights_in_by_type, weights_out_by_type, weights_by_type>>
vars == <<pc, args, elementVars, features, edgeVars, res>>

(***************************************************************************)
(* Bounds of the model.                                                    *)
(***************************************************************************)
NumIds == 2        \* external identifiers are 1..NumIds
MaxLen == 4        \* longest identifier list an index is built from
MaxQuery == 2      \* longest list of identifiers or ilocs in one query
Slack == 2         \* indexes of 256 - Slack .. 256 + Slack identifiers are built too
MaxRows == 3       \* most rows in the tables of one store, and its row labels are 1..MaxRows
MaxEdges == 3      \* most edges in the table of one edge type

None == [op |-> "none", kind |-> "None"]
NoIndex == [index |-> <<>>, dtype |-> 0]
EmptyMap == [t \in {} |-> <<>>]

SeqsUpTo(S, n) == UNION {[1..k -> S] : k \in 0..n}
Range(n) == [k \in 1..n |-> k]
ToSet(seq) == {seq[k] : k \in 1..Len(seq)}

(***************************************************************************)
(* numpy and pandas primitives.                                            *)
(***************************************************************************)
\* np.min_scalar_type(n) for n >= 0: the narrowest unsigned type holding n
min_scalar_type(n) == IF n < 256 THEN 8 ELSE IF n < 65536 THEN 16 ELSE 32

\* the largest value of an unsigned dtype
MaxValue(dtype) == 2 ^ dtype - 1

\* ndarray.astype(dtype) of one int64 value: wraps modulo 2^width; 0 is int64
astype(x, dtype) == IF dtype = 0 THEN x ELSE x % (2 ^ dtype)

\* arr[mask] for a boolean mask
RECURSIVE BoolIndex(_, _)
BoolIndex(arr, mask) ==
    IF arr = <<>> THEN <<>>
    ELSE (IF Head(mask) THEN <<Head(arr)>> ELSE <<>>) \o BoolIndex(Tail(arr), Tail(mask))

\* pd.Index.is_unique
is_unique(index) ==
    \A i, j \in 1..Len(index) : index[i] = index[j] => i = j

\* pd.Index.duplicated(): every occurrence after the first is flagged
duplicated(index) ==
    [k \in 1..Len(index) |-> \E j \in 1..(k - 1) : index[j] = index[k]]

\* pd.Index.unique(): first occurrences, in order
unique(index) ==
    BoolIndex(index, [k \in 1..Len(index) |-> ~ \E j \in 1..(k - 1) : index[j] = index[k]])

\* pd.Index.get_indexer(ids) on a unique index: 0-based position, or -1
get_indexer(index, ids) ==
    [k \in 1..Len(ids) |->
        IF \E j \in 1..Len(index) : index[j] = ids[k]
        THEN (CHOOSE j \in 1..Len(index) : index[j] = ids[k]) - 1
        ELSE -1]

\* arr[ilocs] for an integer array: negative positions count from the end,
\* positions outside the array raise IndexError
IntIndex(arr, ilocs) ==
    IF \E k \in 1..Len(ilocs) : ilocs[k] >= Len(arr) \/ ilocs[k] < 0 - Len(arr)
    THEN [kind |-> "IndexError"]
    ELSE [kind |-> "ok",
          value |-> [k \in 1..Len(ilocs) |->
                        IF ilocs[k] >= 0 THEN arr[ilocs[k] + 1]
                        ELSE arr[Len(arr) + ilocs[k] + 1]]]

\* validation.comma_sep: the values of the message, every one listed
comma_sep(values) == values

(***************************************************************************)
(* ExternalIdIndex                                                         *)
(***************************************************************************)
DtypeHoldsLastIloc(ids) == min_scalar_type(IF Len(ids) = 0 THEN 0 ELSE Len(ids) - 1)

DtypeUint8(ids) == min_scalar_type(0)

IndexDtype(ids) == min_scalar_type(Len(ids))

DuplicatedNotUnique(index) == BoolIndex(index, duplicated(index))

DuplicatedValues(index) == unique(BoolIndex(index, duplicated(index)))

\* ExternalIdIndex.__init__
ExternalIdIndex(ids) ==
    IF ~ is_unique(ids)
    THEN [kind |-> "ValueError",
          message |-> "expected IDs to appear once, found some that appeared more",
          value |-> comma_sep(DuplicatedValues(ids))]
    ELSE [kind |-> "ok", index |-> ids, dtype |-> IndexDtype(ids)]

\* ExternalIdIndex.__len__
len(self) == Len(self.index)

\* ExternalIdIndex.contains_external
contains_external(self, id) == id \in ToSet(self.index)

\* ExternalIdIndex.is_valid
is_valid(self, ilocs) ==
    [k \in 1..Len(ilocs) |-> 0 <= ilocs[k] /\ ilocs[k] < len(self)]

MissingIlocs(query_ids, ilocs, valid) ==
    BoolIndex(ilocs, [k \in 1..Len(valid) |-> ~ valid[k]])

MissingValues(query_ids, ilocs, valid) ==
    BoolIndex(query_ids, [k \in 1..Len(valid) |-> ~ valid[k]])

\* ExternalIdIndex.require_valid
require_valid(self, query_ids, ilocs) ==
    LET valid == is_valid(self, ilocs)
        missing_values == MissingValues(query_ids, ilocs, valid)
    IN  IF \E k \in 1..Len(valid) : ~ valid[k]
        THEN IF Len(missing_values) = 1
             THEN [kind |-> "KeyError", bare |-> TRUE, value |-> missing_values[1]]
             ELSE [kind |-> "KeyError", bare |-> FALSE, value |-> missing_values]
        ELSE [kind |-> "ok"]

\* ExternalIdIndex.to_iloc
to_iloc(self, ids, smaller_type, strict) ==
    LET internal_ids == get_indexer(self.index, ids)
        checked == IF strict THEN require_valid(self, ids, internal_ids)
                   ELSE [kind |-> "ok"]
    IN  IF checked.kind # "ok" THEN checked
        ELSE IF smaller_type
        THEN [kind |-> "ok", dtype |-> self.dtype,
              value |-> [k \in 1..Len(ids) |-> astype(internal_ids[k], self.dtype)]]
        ELSE [kind |-> "ok", dtype |-> 0, value |-> internal_ids]

\* ExternalIdIndex.from_iloc
from_iloc(self, internal_ids) == IntIndex(self.index, internal_ids)

(***************************************************************************)
(* SpecIndex: one ExternalIdIndex and the calls on it.                     *)
(***************************************************************************)
Ids == 1..NumIds

BoundaryLens == (256 - Slack)..(256 + Slack)

IndexInputs == SeqsUpTo(Ids, MaxLen) \cup {Range(n) : n \in BoundaryLens}

\* identifiers to ask for: every small one, one that no index holds (0), and
\* the last one of the index and the one after it
QueryIds(self) == (0..(NumIds + 1)) \cup {len(self), len(self) + 1}

\* ilocs to ask for: around both ends of the index
QueryIlocs(self) == {-1, 0, 1, len(self) - 1, len(self)}

ElementsUnset ==
    /\ type_index = NoIndex
    /\ type_column = <<>>
    /\ type_element_ilocs = EmptyMap
    /\ features = EmptyMap

EdgesUnset ==
    /\ edges_in_by_type = EmptyMap
    /\ edges_out_by_type = EmptyMap
    /\ edges_by_type = EmptyMap
    /\ weights_in_by_type = EmptyMap
    /\ weights_out_by_type = EmptyMap
    /\ weights_by_type = EmptyMap

Init ==
    /\ pc = "new"
    /\ args = None
    /\ id_index = NoIndex
    /\ ElementsUnset
    /\ EdgesUnset
    /\ res = None

\* a call is in flight from the moment it is made until its caller has taken
\* the result; the next call starts after that
Calls == {"to_iloc", "from_iloc", "type_range", "type_of_iloc", "features",
          "degrees", "neighbour_ilocs", "neighbour_weights"}

Idle == res.op \notin Calls

\* the caller takes the result of the call
Return ==
    /\ ~ Idle
    /\ res' = None
    /\ UNCHANGED <<pc, args, elementVars, features, edgeVars>>

\* ExternalIdIndex(ids)
NewIndex ==
    /\ pc = "new"
    /\ \E ids \in IndexInputs :
        LET made == ExternalIdIndex(ids)
        IN  /\ args' = [ids |-> ids]
            /\ IF made.kind = "ok"
               THEN /\ pc' = "index"
                    /\ id_index' = [index |-> made.index, dtype |-> made.dtype]
                    /\ res' = [op |-> "ExternalIdIndex", kind |-> "ok"]
               ELSE /\ pc' = "failed"
                    /\ id_index' = id_index
                    /\ res' = [op |-> "ExternalIdIndex"] @@ made
    /\ UNCHANGED <<type_index, type_column, type_element_ilocs, features, edgeVars>>

\* index.to_iloc(ids, smaller_type, strict)
ToIloc ==
    /\ pc = "index" /\ Idle
    /\ \E ids \in SeqsUpTo(QueryIds(id_index), MaxQuery), smaller_type, strict \in BOOLEAN :
        res' = [op |-> "to_iloc", ids |-> ids, smaller_type |-> smaller_type,
                strict |-> strict] @@ to_iloc(id_index, ids, smaller_type, strict)
    /\ UNCHANGED <<pc, args, elementVars, features, edgeVars>>

\* index.from_iloc(ilocs)
FromIloc ==
    /\ pc = "index" /\ Idle
    /\ \E ilocs \in SeqsUpTo(QueryIlocs(id_index), MaxQuery) :
        res' = [op |-> "from_iloc", ilocs |-> ilocs] @@ from_iloc(id_index, ilocs)
    /\ UNCHANGED <<pc, args, elementVars, features, edgeVars>>

NextIndex == NewIndex \/ ToIloc \/ FromIloc \/ Return

SpecIndex == Init /\ [][NextIndex]_vars

(***************************************************************************)
(* ElementData                                                             *)
(*                                                                         *)
(* `shared` is a dict of type name to DataFrame: keys holds the type names *)
(* in the dict's insertion order, data the table of each.  A table is the  *)
(* sequence of its rows, a row a record with the row label in id (and      *)
(* source, target, weight for an edge).  Type names are compared as Python *)
(* compares these strings.                                                 *)
(***************************************************************************)
TypeNames == <<"A", "B">>

TypeRank(t) == CHOOSE i \in 1..Len(TypeNames) : TypeNames[i] = t

\* str.__lt__ on the type names
TypeLess(a, b) == TypeRank(a) < TypeRank(b)

RECURSIVE SortInsert(_, _)
SortInsert(x, s) ==
    IF s = <<>> THEN <<x>>
    ELSE IF TypeLess(x, Head(s)) THEN <<x>> \o s
    ELSE <<Head(s)>> \o SortInsert(x, Tail(s))

RECURSIVE SortedKeys(_)
SortedKeys(keys) ==
    IF keys = <<>> THEN <<>> ELSE SortInsert(Head(keys), SortedKeys(Tail(keys)))

UnsortedKeys(keys) == keys

\* sorted(shared.keys())
sorted(keys) == SortedKeys(keys)

\* the loop of ElementData.__init__ over all_types, after its first k rounds
RECURSIVE TypeLoop(_, _, _)
TypeLoop(shared, all_types, k) ==
    IF k = 0
    THEN [type_element_ilocs |-> EmptyMap, rows_so_far |-> 0,
          type_sizes |-> <<>>, type_dfs |-> <<>>]
    ELSE LET before == TypeLoop(shared, all_types, k - 1)
             type_name == all_types[k]
             type_data == shared.data[type_name]
             size == Len(type_data)
         IN  [type_element_ilocs |->
                  (type_name :> [start |-> before.rows_so_far,
                                 stop |-> before.rows_so_far + size])
                  @@ before.type_element_ilocs,
              rows_so_far |-> before.rows_so_far + size,
              type_sizes |-> Append(before.type_sizes, size),
              type_dfs |-> Append(before.type_dfs, type_data)]

\* pd.concat(type_dfs): the rows of the tables, one table after the other
RECURSIVE concat(_)
concat(type_dfs) ==
    IF type_dfs = <<>> THEN <<>> ELSE Head(type_dfs) \o concat(Tail(type_dfs))

\* ndarray.repeat(sizes): element k repeated sizes[k] times
RECURSIVE repeat(_, _)
repeat(arr, sizes) ==
    IF arr = <<>> THEN <<>>
    ELSE [j \in 1..Head(sizes) |-> Head(arr)] \o repeat(Tail(arr), Tail(sizes))

RepeatOnce(arr, sizes) == arr

TypeColumn(codes, type_sizes) == repeat(codes, type_sizes)

Column(rows, name) == [k \in 1..Len(rows) |-> rows[k][name]]

\* ElementData.__init__
ElementData(shared) ==
    LET all_types == sorted(shared.keys)
        loop == TypeLoop(shared, all_types, Len(all_types))
        all_columns == concat(loop.type_dfs)
        made_ids == ExternalIdIndex(Column(all_columns, "id"))
        made_types == ExternalIdIndex(all_types)
        type_idx == [index |-> made_types.index, dtype |-> made_types.dtype]
    IN  IF made_ids.kind # "ok" THEN made_ids
        ELSE [kind |-> "ok",
              id_index |-> [index |-> made_ids.index, dtype |-> made_ids.dtype],
              columns |-> all_columns,
              type_index |-> type_idx,
              type_column |-> TypeColumn(to_iloc(type_idx, all_types, TRUE, FALSE).value,
                                         loop.type_sizes),
              type_element_ilocs |-> loop.type_element_ilocs]

\* ElementData.__len__ reads the length of id_index
\* ElementData.type_range
type_range(ilocs_by_type, type_name) ==
    IF type_name \in DOMAIN ilocs_by_type
    THEN [kind |-> "ok", value |-> ilocs_by_type[type_name]]
    ELSE [kind |-> "KeyError", bare |-> TRUE, value |-> type_name]

\* ElementData.type_of_iloc
type_of_iloc(column, types, id_ilocs) ==
    LET type_codes == IntIndex(column, id_ilocs)
    IN  IF type_codes.kind # "ok" THEN type_codes
        ELSE from_iloc(types, type_codes.value)

(***************************************************************************)
(* NodeData                                                                *)
(*                                                                         *)
(* `features` is a dict of type name to a 2D tensor: keys and data as for  *)
(* `shared`, a tensor being the sequence of its rows.                      *)
(***************************************************************************)
\* the loop of NodeData.__init__ over features.items(), from its k-th round on:
\* the first error, if any
RECURSIVE FeatureChecks(_, _, _)
FeatureChecks(ilocs_by_type, feats, k) ==
    IF k > Len(feats.keys) THEN [kind |-> "ok"]
    ELSE LET key == feats.keys[k]
             rows == Len(feats.data[key])
         IN  IF key \notin DOMAIN ilocs_by_type
             THEN [kind |-> "KeyError", bare |-> TRUE, value |-> key]
             ELSE LET expected == ilocs_by_type[key].stop - ilocs_by_type[key].start
                  IN  IF rows # expected
                      THEN [kind |-> "ValueError",
                            message |-> "expected one feature per ID",
                            value |-> <<key, expected, rows>>]
                      ELSE FeatureChecks(ilocs_by_type, feats, k + 1)

\* NodeData.__init__
NodeData(shared, feats) ==
    LET base == ElementData(shared)
    IN  IF base.kind # "ok" THEN base
        ELSE LET checked == FeatureChecks(base.type_element_ilocs, feats, 1)
             IN  IF checked.kind # "ok" THEN checked
                 ELSE base @@ [features |-> feats.data]

SubtractNothing(x, start, dtype) == x

\* one element of `id_ilocs - start`: arithmetic in the array's dtype, which
\* holds start; an unsigned dtype wraps
Subtract(x, start, dtype) ==
    IF dtype = 0 THEN x - start ELSE (x - start) % (2 ^ dtype)

\* tf.nn.embedding_lookup(params, ids) on the CPU: every index is checked
embedding_lookup(params, ids) ==
    IF \E k \in 1..Len(ids) : ids[k] < 0 \/ ids[k] >= Len(params)
    THEN [kind |-> "InvalidArgumentError"]
    ELSE [kind |-> "ok", value |-> [k \in 1..Len(ids) |-> params[ids[k] + 1]]]

\* NodeData.features; dtype is that of the array id_ilocs
Features(ilocs_by_type, feats, type_name, id_ilocs, dtype) ==
    LET start == ilocs_by_type[type_name].start
        feature_ilocs == [k \in 1..Len(id_ilocs) |-> Subtract(id_ilocs[k], start, dtype)]
    IN  IF \E k \in 1..Len(feature_ilocs) : feature_ilocs[k] < 0
        THEN [kind |-> "ValueError", message |-> "unknown IDs"]
        ELSE LET got == embedding_lookup(feats[type_name], feature_ilocs)
             IN  IF got.kind = "InvalidArgumentError"
                 THEN [kind |-> "ValueError", message |-> "unknown IDs"]
                 ELSE got

(***************************************************************************)
(* SpecNodes: one NodeData and the calls on it.                            *)
(***************************************************************************)
Labels == 1..MaxRows

TypeNameSet == ToSet(TypeNames)

\* the orders a dict can hold some of the type names in
KeySeqs ==
    {keys \in SeqsUpTo(TypeNameSet, Len(TypeNames)) :
        \A i, j \in 1..Len(keys) : keys[i] = keys[j] => i = j}

RECURSIVE SumLen(_, _)
SumLen(data, keys) ==
    IF keys = <<>> THEN 0 ELSE Len(data[Head(keys)]) + SumLen(data, Tail(keys))

NodeTables == {[k \in 1..Len(ls) |-> [id |-> ls[k]]] : ls \in SeqsUpTo(Labels, MaxRows)}

\* the feature tensor of a type with n rows: row k is the vector (rank of type, k)
Tensor(t, n) == [k \in 1..n |-> <<TypeRank(t), k - 1>>]

\* a tensor for every type of shared, with one row too many for the type `wrong`
FeaturesFor(shared, wrong) ==
    [keys |-> shared.keys,
     data |-> [t \in ToSet(shared.keys) |->
                  Tensor(t, Len(shared.data[t]) + (IF t = wrong THEN 1 ELSE 0))]]

\* NodeData(shared, features)
NewNodeData ==
    /\ pc = "new"
    /\ \E keys \in KeySeqs :
       \E data \in [ToSet(keys) -> NodeTables] :
       \E wrong \in ToSet(keys) \cup {"none"} :
        LET shared == [keys |-> keys, data |-> data]
            feats == FeaturesFor(shared, wrong)
            made == NodeData(shared, feats)
        IN  /\ SumLen(data, keys) <= MaxRows
            /\ args' = [shared |-> shared, features |-> feats]
            /\ IF made.kind = "ok"
               THEN /\ pc' = "nodes"
                    /\ id_index' = made.id_index
                    /\ type_index' = made.type_index
                    /\ type_column' = made.type_column
                    /\ type_element_ilocs' = made.type_element_ilocs
                    /\ features' = made.features
                    /\ res' = [op |-> "NodeData", kind |-> "ok"]
               ELSE /\ pc' = "failed"
                    /\ UNCHANGED <<elementVars, features>>
                    /\ res' = [op |-> "NodeData"] @@ made
    /\ UNCHANGED edgeVars

\* store.ids.to_iloc([id], smaller_type)
IdsToIloc ==
    /\ pc = "nodes" /\ Idle
    /\ \E id \in Labels \cup {0}, smaller_type \in BOOLEAN :
        res' = [op |-> "to_iloc", ids |-> <<id>>, smaller_type |-> smaller_type,
                strict |-> FALSE] @@ to_iloc(id_index, <<id>>, smaller_type, FALSE)
    /\ UNCHANGED <<pc, args, elementVars, features, edgeVars>>

\* store.type_range(type_name)
TypeRange ==
    /\ pc = "nodes" /\ Idle
    /\ \E t \in TypeNameSet :
        res' = [op |-> "type_range", type_name |-> t] @@ type_range(type_element_ilocs, t)
    /\ UNCHANGED <<pc, args, elementVars, features, edgeVars>>

\* store.type_of_iloc([iloc])
TypeOfIloc ==
    /\ pc = "nodes" /\ Idle
    /\ \E i \in (-1)..len(id_index) :
        res' = [op |-> "type_of_iloc", id_ilocs |-> <<i>>]
               @@ type_of_iloc(type_column, type_index, <<i>>)
    /\ UNCHANGED <<pc, args, elementVars, features, edgeVars>>

\* the ilocs an array of a dtype can be asked for: every iloc of the store, the
\* first one past it, and what to_iloc gives for an unknown identifier
IlocsOf(dtype) ==
    (0..len(id_index)) \cup {IF dtype = 0 THEN -1 ELSE MaxValue(dtype)}

\* store.features(type_name, id_ilocs)
FeaturesCall ==
    /\ pc = "nodes" /\ Idle
    /\ \E t \in DOMAIN type_element_ilocs, dtype \in {0, id_index.dtype} :
       \E id_ilocs \in SeqsUpTo(IlocsOf(dtype), MaxQuery) :
        res' = [op |-> "features", type_name |-> t, id_ilocs |-> id_ilocs,
                dtype |-> dtype]
               @@ Features(type_element_ilocs, features, t, id_ilocs, dtype)
    /\ UNCHANGED <<pc, args, elementVars, features, edgeVars>>

NextNodes == NewNodeData \/ IdsToIloc \/ TypeRange \/ TypeOfIloc \/ FeaturesCall \/ Return

SpecNodes == Init /\ [][NextNodes]_vars

(***************************************************************************)
(* EdgeData                                                                *)
(*                                                                         *)
(* An adjacency table is a function from the node ilocs 0..num_nodes-1 to  *)
(* sequences, as the dicts of the source are.                              *)
(***************************************************************************)
AppendUndirectedTwice(table, src, tgt, to_tgt, to_src) ==
    [[table EXCEPT ![tgt] = Append(@, to_tgt)] EXCEPT ![src] = Append(@, to_src)]

\* the appends to undirected / und_weights for one edge: the target's list gets
\* an entry, and the source's too unless the edge is a self-loop
AppendUndirected(table, src, tgt, to_tgt, to_src) ==
    LET one == [table EXCEPT ![tgt] = Append(@, to_tgt)]
    IN  IF src # tgt THEN [one EXCEPT ![src] = Append(@, to_src)] ELSE one

WeightOfFirstRow(type_data, wt) == type_data[1].weight

\* the weight appended with an edge's neighbour entries
EdgeWeight(type_data, wt) == wt

\* the loop of EdgeData.__init__ over the rows of one type, after its first k rounds
RECURSIVE EdgeLoop(_, _, _)
EdgeLoop(type_data, num_nodes, k) ==
    IF k = 0
    THEN LET empty == [i \in 0..(num_nodes - 1) |-> <<>>]
         IN  [in_dict |-> empty, out_dict |-> empty, undirected |-> empty,
              in_weights |-> empty, out_weights |-> empty, und_weights |-> empty]
    ELSE LET b == EdgeLoop(type_data, num_nodes, k - 1)
             src == type_data[k].source
             tgt == type_data[k].target
             wt == EdgeWeight(type_data, type_data[k].weight)
         IN  [in_dict |-> [b.in_dict EXCEPT ![tgt] = Append(@, src)],
              in_weights |-> [b.in_weights EXCEPT ![tgt] = Append(@, wt)],
              out_dict |-> [b.out_dict EXCEPT ![src] = Append(@, tgt)],
              out_weights |-> [b.out_weights EXCEPT ![src] = Append(@, wt)],
              undirected |-> AppendUndirected(b.undirected, src, tgt, src, tgt),
              und_weights |-> AppendUndirected(b.und_weights, src, tgt, wt, wt)]

AllRows(shared, type_name) == concat([k \in 1..Len(shared.keys) |-> shared.data[shared.keys[k]]])

\* the table the adjacency of a type is built from
TypeData(shared, type_name) == shared.data[type_name]

\* EdgeData.__init__
EdgeData(shared, num_nodes) ==
    LET base == ElementData(shared)
        all_type_names == sorted(shared.keys)
        built == [t \in ToSet(all_type_names) |->
                     LET type_data == TypeData(shared, t)
                     IN  EdgeLoop(type_data, num_nodes, Len(type_data))]
        Table(name) == [t \in ToSet(all_type_names) |-> built[t][name]]
    IN  IF base.kind # "ok" THEN base
        ELSE base @@
             [all_type_names |-> all_type_names,
              edges_in_by_type |-> Table("in_dict"),
              edges_out_by_type |-> Table("out_dict"),
              edges_by_type |-> Table("undirected"),
              weights_in_by_type |-> Table("in_weights"),
              weights_out_by_type |-> Table("out_weights"),
              weights_by_type |-> Table("und_weights")]

UsageError ==
    [kind |-> "ValueError",
     message |-> "expected at least one of 'ins' or 'outs' to be True, found neither"]

Lookup(both, in, out, type_name, ins, outs) ==
    IF ins /\ outs THEN [kind |-> "ok", value |-> both[type_name]]
    ELSE IF ins THEN [kind |-> "ok", value |-> in[type_name]]
    ELSE IF outs THEN [kind |-> "ok", value |-> out[type_name]]
    ELSE UsageError

AdjLookupSwapped(type_name, ins, outs) ==
    Lookup(edges_by_type, edges_out_by_type, edges_in_by_type, type_name, ins, outs)

\* EdgeData._adj_lookup
adj_lookup(type_name, ins, outs) ==
    Lookup(edges_by_type, edges_in_by_type, edges_out_by_type, type_name, ins, outs)

\* EdgeData._weight_lookup
weight_lookup(type_name, ins, outs) ==
    Lookup(weights_by_type, weights_in_by_type, weights_out_by_type, type_name, ins, outs)

\* EdgeData.degrees: a defaultdict(int) with the length of every node's list
degrees(type_name, ins, outs) ==
    LET adj == adj_lookup(type_name, ins, outs)
    IN  IF adj.kind # "ok" THEN adj
        ELSE [kind |-> "ok", default |-> 0,
              value |-> [key \in DOMAIN adj.value |-> Len(adj.value[key])]]

\* EdgeData.neighbour_ilocs
neighbour_ilocs(node_id, type_name, ins, outs) ==
    LET adj == adj_lookup(type_name, ins, outs)
    IN  IF adj.kind # "ok" THEN adj
        ELSE IF node_id \notin DOMAIN adj.value
        THEN [kind |-> "KeyError", bare |-> TRUE, value |-> node_id]
        ELSE [kind |-> "ok", value |-> adj.value[node_id]]

\* EdgeData.neighbour_weights
neighbour_weights(node_id, type_name, ins, outs) ==
    LET adj == weight_lookup(type_name, ins, outs)
    IN  IF adj.kind # "ok" THEN adj
        ELSE IF node_id \notin DOMAIN adj.value
        THEN [kind |-> "KeyError", bare |-> TRUE, value |-> node_id]
        ELSE [kind |-> "ok", value |-> adj.value[node_id]]

(***************************************************************************)
(* SpecEdges: one EdgeData and the calls on it.                            *)
(***************************************************************************)
\* the node counts of the graphs the stores are built for
NodeCounts == 0..2

\* the edge lists of up to n edges between the nodes 0..num_nodes-1
EdgeLists(num_nodes, n) ==
    SeqsUpTo((0..(num_nodes - 1)) \X (0..(num_nodes - 1)), n)

\* the table of an edge list: the k-th edge has weight k and the row label
\* first + k
EdgeTable(edges, first) ==
    [k \in 1..Len(edges) |->
        [id |-> first + k, source |-> edges[k][1], target |-> edges[k][2], weight |-> k]]

\* the tables of the edge lists; row labels are distinct across the tables
EdgeShared(keys, lists) ==
    [keys |-> keys,
     data |-> [t \in ToSet(keys) |-> EdgeTable(lists[t], (TypeRank(t) - 1) * (MaxEdges + 1))]]

\* EdgeData(shared, num_nodes)
Construct(shared, num_nodes) ==
    LET made == EdgeData(shared, num_nodes)
    IN  /\ args' = [shared |-> shared, num_nodes |-> num_nodes]
        /\ IF made.kind = "ok"
           THEN /\ pc' = "edges"
                /\ id_index' = made.id_index
                /\ type_index' = made.type_index
                /\ type_column' = made.type_column
                /\ type_element_ilocs' = made.type_element_ilocs
                /\ edges_in_by_type' = made.edges_in_by_type
                /\ edges_out_by_type' = made.edges_out_by_type
                /\ edges_by_type' = made.edges_by_type
                /\ weights_in_by_type' = made.weights_in_by_type
                /\ weights_out_by_type' = made.weights_out_by_type
                /\ weights_by_type' = made.weights_by_type
                /\ res' = [op |-> "EdgeData", kind |-> "ok"]
           ELSE /\ pc' = "failed"
                /\ UNCHANGED <<elementVars, edgeVars>>
                /\ res' = [op |-> "EdgeData"] @@ made
        /\ UNCHANGED features

\* EdgeData(shared, num_nodes) for any edge types, with up to MaxEdges edges in all
NewEdgeData ==
    /\ pc = "new"
    /\ \E num_nodes \in NodeCounts, keys \in KeySeqs :
       \E lists \in [ToSet(keys) -> EdgeLists(num_nodes, MaxEdges)] :
        /\ SumLen(lists, keys) <= MaxEdges
        /\ Construct(EdgeShared(keys, lists), num_nodes)

\* the edge list of the degree example of the documentation
DegreeExample == <<<<0, 1>>, <<1, 2>>, <<2, 2>>>>

\* EdgeData(shared, 3) for one edge type of up to three edges between three
\* nodes, as in the degree example
NewExampleEdgeData ==
    /\ pc = "new"
    /\ \E edges \in EdgeLists(3, Len(DegreeExample)) :
        Construct(EdgeShared(<<"A">>, [t \in {"A"} |-> edges]), 3)

\* store.degrees(type_name=t, ins=ins, outs=outs)
Degrees ==
    /\ pc = "edges" /\ Idle
    /\ \E t \in DOMAIN edges_by_type, ins, outs \in BOOLEAN :
        res' = [op |-> "degrees", type_name |-> t, ins |-> ins, outs |-> outs]
               @@ degrees(t, ins, outs)
    /\ UNCHANGED <<pc, args, elementVars, features, edgeVars>>

\* store.neighbour_ilocs(n, type_name=t, ins=ins, outs=outs)
NeighbourIlocs ==
    /\ pc = "edges" /\ Idle
    /\ \E t \in DOMAIN edges_by_type, n \in 0..(args.num_nodes - 1), ins, outs \in BOOLEAN :
        res' = [op |-> "neighbour_ilocs", node_id |-> n, type_name |-> t,
                ins |-> ins, outs |-> outs]
               @@ neighbour_ilocs(n, t, ins, outs)
    /\ UNCHANGED <<pc, args, elementVars, features, edgeVars>>

\* store.neighbour_weights(n, type_name=t, ins=ins, outs=outs)
NeighbourWeights ==
    /\ pc = "edges" /\ Idle
    /\ \E t \in DOMAIN edges_by_type, n \in 0..(args.num_nodes - 1), ins, outs \in BOOLEAN :
        res' = [op |-> "neighbour_weights", node_id |-> n, type_name |-> t,
                ins |-> ins, outs |-> outs]
               @@ neighbour_weights(n, t, ins, outs)
    /\ UNCHANGED <<pc, args, elementVars, features, edgeVars>>

NextEdges == NewEdgeData \/ NewExampleEdgeData \/ Degrees \/ NeighbourIlocs \/ NeighbourWeights \/ Return

SpecEdges == Init /\ [][NextEdges]_vars

(***************************************************************************)
(* Properties of EdgeData, under SpecEdges.  The input tables are read     *)
(* from args, the tables of the store from its fields.                     *)
(***************************************************************************)
Nodes == 0..(args.num_nodes - 1)

EdgeTypes == ToSet(args.shared.keys)

Count(seq, x) == Cardinality({k \in 1..Len(seq) : seq[k] = x})

\* the number of edges from a to b in the input table of type t
EdgesFromTo(t, a, b) ==
    LET table == args.shared.data[t]
    IN  Cardinality({k \in 1..Len(table) : table[k].source = a /\ table[k].target = b})

AdjTables == <<edges_in_by_type, edges_out_by_type, edges_by_type>>

\* C1: after EdgeData construction every edge (src, tgt) of a type contributes
\* exactly one entry tgt to out[src], one entry src to in[tgt], one entry src
\* to undirected[tgt] and, only when src # tgt, one entry tgt to
\* undirected[src]; the tables of a type hold nothing else: every table covers
\* exactly the node ilocs, and b occurs in a node's list as often as the
\* type's own edges put it there.
C1_EdgeEntries ==
    pc = "edges" =>
        /\ \A i \in 1..3 : DOMAIN AdjTables[i] = EdgeTypes
        /\ \A t \in EdgeTypes :
            /\ \A i \in 1..3 :
                /\ DOMAIN AdjTables[i][t] = Nodes
                /\ \A a \in Nodes : ToSet(AdjTables[i][t][a]) \subseteq Nodes
            /\ \A a, b \in Nodes :
                /\ Count(edges_out_by_type[t][a], b) = EdgesFromTo(t, a, b)
                /\ Count(edges_in_by_type[t][b], a) = EdgesFromTo(t, a, b)
                /\ Count(edges_by_type[t][a], b) =
                       IF a = b THEN EdgesFromTo(t, a, a)
                       ELSE EdgesFromTo(t, a, b) + EdgesFromTo(t, b, a)

\* a store of two edge types, one of them with a self-loop and an edge between
\* two nodes
C1_Witness ==
    /\ pc = "edges"
    /\ Cardinality(EdgeTypes) = 2
    /\ \E t, u \in EdgeTypes, a, b \in Nodes :
        /\ t # u /\ a # b
        /\ EdgesFromTo(t, a, a) = 1
        /\ EdgesFromTo(t, a, b) = 1
        /\ Len(args.shared.data[u]) = 1
        /\ Len(edges_by_type[t][a]) = 2

\* degrees(type_name="A", ins=True, outs=True) returned d for the store built
\* from the degree example
DegreeExampleAnswered ==
    /\ pc = "edges"
    /\ args.num_nodes = 3
    /\ args.shared.keys = <<"A">>
    /\ args.shared.data["A"] = EdgeTable(DegreeExample, 0)
    /\ res.op = "degrees" /\ res.type_name = "A" /\ res.ins /\ res.outs

ViewOf(ins, outs) == IF ins /\ outs THEN "both" ELSE IF ins THEN "in" ELSE "out"

\* the rows of the input table of type t that give node n an entry in a view,
\* in the order of the table
RowsAt(t, n, view) ==
    LET Gives(row) == CASE view = "in" -> row.target = n
                        [] view = "out" -> row.source = n
                        [] OTHER -> row.source = n \/ row.target = n
    IN  SelectSeq(args.shared.data[t], Gives)

\* the neighbour such a row gives node n
OtherEnd(row, n, view) ==
    CASE view = "in" -> row.source
      [] view = "out" -> row.target
      [] OTHER -> IF row.target = n THEN row.source ELSE row.target

ExpectedNeighbours(t, n, view) ==
    LET rows == RowsAt(t, n, view)
    IN  [k \in 1..Len(rows) |-> OtherEnd(rows[k], n, view)]

ExpectedWeights(t, n, view) ==
    LET rows == RowsAt(t, n, view)
    IN  [k \in 1..Len(rows) |-> rows[k].weight]

\* C7: for every edge type, view and node, the weight sequence is as long as
\* the neighbour sequence, and position k of both comes from the same edge:
\* the k-th edge of the type's table, in table order, that gives the node an
\* entry in that view.
C7_WeightsAligned ==
    pc = "edges" =>
        \A t \in EdgeTypes, n \in Nodes :
            /\ Len(weights_in_by_type[t][n]) = Len(edges_in_by_type[t][n])
            /\ Len(weights_out_by_type[t][n]) = Len(edges_out_by_type[t][n])
            /\ Len(weights_by_type[t][n]) = Len(edges_by_type[t][n])
            /\ edges_in_by_type[t][n] = ExpectedNeighbours(t, n, "in")
            /\ weights_in_by_type[t][n] = ExpectedWeights(t, n, "in")
            /\ edges_out_by_type[t][n] = ExpectedNeighbours(t, n, "out")
            /\ weights_out_by_type[t][n] = ExpectedWeights(t, n, "out")
            /\ edges_by_type[t][n] = ExpectedNeighbours(t, n, "both")
            /\ weights_by_type[t][n] = ExpectedWeights(t, n, "both")

\* a node whose undirected list holds entries of three edges, the second of
\* them a self-loop, with the weights 1, 2, 3 of these edges
C7_Witness ==
    /\ pc = "edges"
    /\ \E t \in EdgeTypes, n \in Nodes :
        /\ Len(edges_by_type[t][n]) = 3
        /\ edges_by_type[t][n][2] = n
        /\ edges_by_type[t][n][1] # n
        /\ weights_by_type[t][n] = <<1, 2, 3>>
        /\ Len(weights_in_by_type[t][n]) = 2

\* C8: degrees, neighbour_ilocs and neighbour_weights read the same single
\* view for the same flags (undirected for both, incoming for ins only,
\* outgoing for outs only): for every node iloc, isolated ones included, the
\* degree is the length of the neighbour and of the weight sequence of that
\* view, and a call with both flags false fails with the usage error.
C8_SameView ==
    pc = "edges" =>
        /\ \A t \in EdgeTypes, n \in Nodes, ins, outs \in BOOLEAN :
            LET d == degrees(t, ins, outs)
                ilocs == neighbour_ilocs(n, t, ins, outs)
                ws == neighbour_weights(n, t, ins, outs)
            IN  IF ~ ins /\ ~ outs
                THEN d = UsageError /\ ilocs = UsageError /\ ws = UsageError
                ELSE /\ d.kind = "ok" /\ ilocs.kind = "ok" /\ ws.kind = "ok"
                     /\ DOMAIN d.value = Nodes
                     /\ d.value[n] = Len(ilocs.value)
                     /\ d.value[n] = Len(ws.value)
                     /\ ilocs.value = ExpectedNeighbours(t, n, ViewOf(ins, outs))
                     /\ ws.value = ExpectedWeights(t, n, ViewOf(ins, outs))
        /\ res.op \in {"degrees", "neighbour_ilocs", "neighbour_weights"} =>
            IF ~ res.ins /\ ~ res.outs
            THEN res.kind = "ValueError" /\ res.message = UsageError.message
            ELSE /\ res.kind = "ok"
                 /\ res.op = "degrees" =>
                        \A n \in Nodes :
                            res.value[n] = Len(ExpectedNeighbours(res.type_name, n,
                                                                  ViewOf(res.ins, res.outs)))
                 /\ res.op = "neighbour_ilocs" =>
                        res.value = ExpectedNeighbours(res.type_name, res.node_id,
                                                       ViewOf(res.ins, res.outs))
                 /\ res.op = "neighbour_weights" =>
                        res.value = ExpectedWeights(res.type_name, res.node_id,
                                                    ViewOf(res.ins, res.outs))

\* degrees of the incoming view alone: a node with more incoming than outgoing
\* edges next to an isolated node
C8_Witness ==
    /\ pc = "edges"
    /\ res.op = "degrees" /\ res.ins /\ ~ res.outs /\ res.kind = "ok"
    /\ \E n, m \in Nodes :
        /\ res.value[n] = 2
        /\ Len(edges_out_by_type[res.type_name][n]) = 0
        /\ res.value[m] = 0
        /\ Len(edges_by_type[res.type_name][m]) = 0

(***************************************************************************)
(* Properties of ElementData and NodeData, under SpecNodes.                *)
(***************************************************************************)
StoreTypes == ToSet(args.shared.keys)

Size(t) == Len(args.shared.data[t])

RECURSIVE SumSizes(_)
SumSizes(S) ==
    IF S = {} THEN 0
    ELSE LET t == CHOOSE u \in S : TRUE IN Size(t) + SumSizes(S \ {t})

\* the number of rows of the types whose name sorts before t
RowsBefore(t) == SumSizes({u \in StoreTypes : TypeLess(u, t)})

InRange(i, t) == type_element_ilocs[t].start <= i /\ i < type_element_ilocs[t].stop

\* C3: the per-type iloc ranges are pairwise disjoint contiguous intervals
\* that together cover [0, total element count) exactly, laid out in ascending
\* sorted order of type name, each as long as its type's table (an empty type
\* has an empty range at its position); type_range returns them.
C3_RangesPartition ==
    pc = "nodes" =>
        /\ DOMAIN type_element_ilocs = StoreTypes
        /\ len(id_index) = SumSizes(StoreTypes)
        /\ \A t \in StoreTypes :
            /\ type_element_ilocs[t].start = RowsBefore(t)
            /\ type_element_ilocs[t].stop = RowsBefore(t) + Size(t)
            /\ type_element_ilocs[t].stop <= len(id_index)
        /\ \A t, u \in StoreTypes :
            TypeLess(t, u) => type_element_ilocs[t].stop <= type_element_ilocs[u].start
        /\ \A i \in 0..(len(id_index) - 1) :
            Cardinality({t \in StoreTypes : InRange(i, t)}) = 1
        /\ (res.op = "type_range" /\ res.type_name \in StoreTypes) =>
            /\ res.kind = "ok"
            /\ res.value = [start |-> RowsBefore(res.type_name),
                            stop |-> RowsBefore(res.type_name) + Size(res.type_name)]

\* type_range("A") answered for a store whose dict held "B" before "A", both
\* with rows
C3_Witness ==
    /\ pc = "nodes"
    /\ args.shared.keys = <<"B", "A">>
    /\ Size("A") = 1 /\ Size("B") = 2
    /\ res.op = "type_range" /\ res.type_name = "A"
    /\ type_element_ilocs["B"] = [start |-> 1, stop |-> 3]

\* C4: the identifier of the k-th row (0-based) of the table of type T has
\* the iloc type_range(T).start + k, and type_of on that iloc gives T; for
\* every iloc i of the store, type_of(i) = T exactly when i is in
\* type_range(T).
C4_IlocOfRow ==
    pc = "nodes" =>
        /\ \A t \in StoreTypes, smaller_type \in BOOLEAN :
            \A k \in 1..Size(t) :
                LET iloc == to_iloc(id_index, <<args.shared.data[t][k].id>>,
                                    smaller_type, FALSE)
                IN  /\ iloc.kind = "ok"
                    /\ iloc.value = <<type_element_ilocs[t].start + (k - 1)>>
                    /\ type_of_iloc(type_column, type_index, iloc.value)
                           = [kind |-> "ok", value |-> <<t>>]
        /\ \A i \in 0..(len(id_index) - 1), t \in StoreTypes :
            (type_of_iloc(type_column, type_index, <<i>>) = [kind |-> "ok", value |-> <<t>>])
                <=> InRange(i, t)
        /\ (res.op = "type_of_iloc" /\ res.id_ilocs[1] \in 0..(len(id_index) - 1)) =>
            /\ res.kind = "ok"
            /\ res.value[1] \in StoreTypes
            /\ InRange(res.id_ilocs[1], res.value[1])
        /\ res.op = "to_iloc" =>
            \A t \in StoreTypes : \A k \in 1..Size(t) :
                args.shared.data[t][k].id = res.ids[1] =>
                    res.value = <<type_element_ilocs[t].start + (k - 1)>>

\* type_of answered "B" for the last iloc of a store in which "A" has rows too
C4_Witness ==
    /\ pc = "nodes"
    /\ args.shared.keys = <<"B", "A">>
    /\ Size("A") = 1 /\ Size("B") = 2
    /\ res.op = "type_of_iloc" /\ res.id_ilocs = <<2>> /\ res.value = <<"B">>

\* C6: features(T, ilocs) fails with the unknown-IDs error whenever a
\* requested iloc lies outside type_range(T) (an iloc of an earlier or of a
\* later type, or the unknown sentinel, -1 or the compact unsigned one), and
\* otherwise returns, in request order, the rows of T's tensor at the offsets
\* iloc - type_range(T).start; the stored tensors are those given on
\* construction in both cases.
C6_FeaturesBoundary ==
    (pc = "nodes" /\ res.op = "features") =>
        LET t == res.type_name
            tensor == args.features.data[t]
        IN  /\ features = args.features.data
            /\ IF \E k \in 1..Len(res.id_ilocs) : ~ InRange(res.id_ilocs[k], t)
               THEN res.kind = "ValueError" /\ res.message = "unknown IDs"
               ELSE /\ res.kind = "ok"
                    /\ res.value = [k \in 1..Len(res.id_ilocs) |->
                           tensor[res.id_ilocs[k] - type_element_ilocs[t].start + 1]]

\* a uint8 selection holding an iloc of the earlier type "A" is refused for
\* "B": the offset wraps around instead of turning negative
C6_Witness ==
    /\ pc = "nodes" /\ res.op = "features"
    /\ res.type_name = "B" /\ res.dtype = 8
    /\ type_element_ilocs["B"] = [start |-> 1, stop |-> 3]
    /\ res.id_ilocs = <<1, 0>>
    /\ res.kind = "ValueError"

(***************************************************************************)
(* Properties of ExternalIdIndex, under SpecIndex and SpecIndexAndNodes.   *)
(***************************************************************************)
SpecIndexAndNodes == Init /\ [][NextIndex \/ NextNodes]_vars

DuplicateMessage == "expected IDs to appear once, found some that appeared more"

\* the values that occur more than once in a sequence
Repeated(seq) == {x \in ToSet(seq) : Count(seq, x) > 1}

\* the row labels of all the tables of shared, table after table
RECURSIVE LabelsOf(_, _)
LabelsOf(shared, keys) ==
    IF keys = <<>> THEN <<>>
    ELSE Column(shared.data[Head(keys)], "id") \o LabelsOf(shared, Tail(keys))

NothingBuilt ==
    pc = "failed" /\ id_index = NoIndex /\ ElementsUnset /\ EdgesUnset

\* C9: constructing an index fails with the duplicate-identifier error if and
\* only if some identifier occurs more than once in the input, and the error
\* names each distinct duplicated value exactly once; so constructing a store
\* fails, leaving no store, whenever a row label repeats within one table or
\* across the tables of two types.
C9_DuplicatesRejected ==
    /\ res.op = "ExternalIdIndex" =>
        IF Repeated(args.ids) # {}
        THEN /\ res.kind = "ValueError" /\ res.message = DuplicateMessage
             /\ ToSet(res.value) = Repeated(args.ids)
             /\ Len(res.value) = Cardinality(Repeated(args.ids))
             /\ NothingBuilt
        ELSE res.kind = "ok" /\ pc = "index" /\ id_index.index = args.ids
    /\ res.op = "NodeData" =>
        LET labels == LabelsOf(args.shared, args.shared.keys)
        IN  IF Repeated(labels) # {}
            THEN /\ res.kind = "ValueError" /\ res.message = DuplicateMessage
                 /\ ToSet(res.value) = Repeated(labels)
                 /\ Len(res.value) = Cardinality(Repeated(labels))
                 /\ NothingBuilt
            ELSE res.kind = "ok" \/ res.message # DuplicateMessage

\* a store refused for a label that the tables of two types share, each table
\* alone being free of repeats
C9_Witness ==
    /\ pc = "failed" /\ res.op = "NodeData" /\ res.kind = "ValueError"
    /\ Cardinality(StoreTypes) = 2
    /\ \A t \in StoreTypes : Size(t) >= 1 /\ is_unique(Column(args.shared.data[t], "id"))
    /\ res.value = <<2>>

Known(id) == id \in ToSet(id_index.index)

\* C5: with the compact width, non-strict to_iloc maps every unknown
\* identifier to the largest value of the index's unsigned width, and that
\* value is never a valid iloc nor the iloc of a known identifier, whatever
\* the length of the index (0, 255 and 256 included); without the compact
\* width it maps every unknown identifier to -1.
C5_Sentinel ==
    (pc = "index" /\ res.op = "to_iloc" /\ ~ res.strict) =>
        /\ res.kind = "ok"
        /\ id_index.dtype \in {8, 16}
        /\ \A k \in 1..Len(res.ids) :
            IF Known(res.ids[k])
            THEN /\ is_valid(id_index, res.value)[k]
                 /\ id_index.index[res.value[k] + 1] = res.ids[k]
            ELSE IF res.smaller_type
            THEN /\ res.value[k] = MaxValue(id_index.dtype)
                 /\ ~ is_valid(id_index, res.value)[k]
                 /\ res.value[k] >= len(id_index)
            ELSE res.value[k] = -1

\* an index of 255 identifiers answers 255 for an unknown identifier and 254
\* for its last one
C5_Witness ==
    /\ pc = "index" /\ len(id_index) = 255
    /\ res.op = "to_iloc" /\ ~ res.strict /\ res.smaller_type
    /\ res.ids = <<256, 255>>
    /\ res.value = <<255, 254>>

\* the entries of a query that the index does not hold, in query order
Absent(ids) == SelectSeq(ids, LAMBDA id : ~ Known(id))

\* C10: to_iloc(ids, strict=True) fails if and only if a queried identifier
\* is absent from the index; the error names the absent queried identifiers
\* as supplied, never their ilocs: the bare identifier when exactly one query
\* entry is absent, the collection of misses otherwise; when all are present
\* it returns their ilocs; the index is as constructed either way.
C10_StrictMisses ==
    (pc = "index" /\ res.op = "to_iloc" /\ res.strict) =>
        /\ id_index.index = args.ids
        /\ IF Absent(res.ids) # <<>>
           THEN /\ res.kind = "KeyError"
                /\ IF Len(Absent(res.ids)) = 1
                   THEN res.bare /\ res.value = Absent(res.ids)[1]
                   ELSE ~ res.bare /\ res.value = Absent(res.ids)
           ELSE /\ res.kind = "ok"
                /\ \A k \in 1..Len(res.ids) : id_index.index[res.value[k] + 1] = res.ids[k]

\* a strict query of a known and an unknown identifier fails naming the
\* unknown one alone
C10_Witness ==
    /\ pc = "index" /\ res.op = "to_iloc" /\ res.strict
    /\ Len(res.ids) = 2 /\ Known(res.ids[1]) /\ ~ Known(res.ids[2])
    /\ res.kind = "KeyError" /\ res.bare /\ res.value = res.ids[2]

\* C11: for every identifier of a constructed index, from_iloc(to_iloc([id]))
\* is [id], with the compact width or without it; to_iloc gives the
\* identifier's position in the construction sequence, so it is injective on
\* the identifiers of the index.  Every identifier is taken round right
\* after construction, and every answer of to_iloc and from_iloc is checked.
C11_RoundTrip ==
    pc = "index" =>
        /\ res.op = "ExternalIdIndex" =>
            \A k \in 1..Len(args.ids), smaller_type, strict \in BOOLEAN :
                LET iloc == to_iloc(id_index, <<args.ids[k]>>, smaller_type, strict)
                IN  /\ iloc.kind = "ok"
                    /\ iloc.value = <<k - 1>>
                    /\ from_iloc(id_index, iloc.value)
                           = [kind |-> "ok", value |-> <<args.ids[k]>>]
        /\ (res.op = "to_iloc" /\ res.kind = "ok" /\ \A k \in 1..Len(res.ids) : Known(res.ids[k])) =>
            /\ from_iloc(id_index, res.value) = [kind |-> "ok", value |-> res.ids]
            /\ \A j, k \in 1..Len(res.ids) : res.value[j] = res.value[k] => res.ids[j] = res.ids[k]
            /\ \A k \in 1..Len(res.ids) : args.ids[res.value[k] + 1] = res.ids[k]
        /\ (res.op = "from_iloc" /\ \A k \in 1..Len(res.ilocs) : is_valid(id_index, res.ilocs)[k]) =>
            /\ res.kind = "ok"
            /\ \A smaller_type \in BOOLEAN :
                to_iloc(id_index, res.value, smaller_type, TRUE).value = res.ilocs

\* the last identifier of an index of 257 identifiers has the compact iloc 256,
\* which needs the 16-bit width, and from_iloc takes it back
C11_Witness ==
    /\ pc = "index" /\ len(id_index) = 257
    /\ res.op = "to_iloc" /\ res.smaller_type /\ res.kind = "ok"
    /\ res.ids = <<257, 1>>
    /\ res.value = <<256, 0>>
    /\ from_iloc(id_index, res.value).value = res.ids

====
